---- MODULE Spec2Model ----
(***************************************************************************)
(* Model of the Kafka wire-protocol stub server of app/main.py: one        *)
(* connection, one request read with a single recv, decoded as a           *)
(* RequestV2, dispatched on its API key, answered with one framed          *)
(* response (or aborted by an exception before anything is written).       *)
(*                                                                         *)
(* Bytes objects are sequences over 0..255.  Python integers that can      *)
(* exceed 31 bits (the correlation id, the client id, a UUID's value) are  *)
(* carried as their base-256 numeral without leading zeros, which is what  *)
(* int.from_bytes / int.to_bytes convert from and to.                      *)
(***************************************************************************)
EXTENDS Integers, Sequences, FiniteSets, TLC

VARIABLES pc, data, topics, response, sent, raised, topic, encoded

vars == <<pc, data, topics, response, sent, raised, topic, encoded>>

(***************************************************************************)
(* Bounds of the explored inputs.                                          *)
(***************************************************************************)
MaxApiVersion == 17
MaxClientIdLen == 2
MaxTopicsNum == 4
MaxPartitions == 2
MaxCount == 255

(***************************************************************************)
(* Python primitives.                                                      *)
(***************************************************************************)

\* b[lo:hi] for non-negative lo, hi: out-of-range indices are clamped.
Slice(b, lo, hi) ==
    LET l == IF lo > Len(b) THEN Len(b) ELSE lo
        h == IF hi > Len(b) THEN Len(b) ELSE hi
    IN  IF h <= l THEN <<>> ELSE SubSeq(b, l + 1, h)

\* b[lo:]
SliceFrom(b, lo) == Slice(b, lo, Len(b))

RECURSIVE Zeros(_)
Zeros(n) == IF n <= 0 THEN <<>> ELSE <<0>> \o Zeros(n - 1)

\* int.from_bytes(b, byteorder="big"), unsigned (signed defaults to False);
\* used where the slice is at most 3 bytes wide, or a small frame size.
RECURSIVE FromBytes(_)
FromBytes(b) ==
    IF b = <<>> THEN 0
    ELSE 256 * FromBytes(SubSeq(b, 1, Len(b) - 1)) + b[Len(b)]

\* v.to_bytes(w, byteorder="big") for 0 <= v < 256^w.
RECURSIVE ToBytes(_, _)
ToBytes(v, w) ==
    IF w = 0 THEN <<>> ELSE Append(ToBytes(v \div 256, w - 1), v % 256)

\* int.from_bytes(b, byteorder="big") as a base-256 numeral: the value of b
\* does not depend on leading zero bytes.
RECURSIVE BigFromBytes(_)
BigFromBytes(b) ==
    IF b = <<>> THEN <<>>
    ELSE IF Head(b) = 0 THEN BigFromBytes(Tail(b)) ELSE b

\* n.to_bytes(w, byteorder="big") of a numeral of at most w digits.
BigToBytes(n, w) == Zeros(w - Len(n)) \o n

(***************************************************************************)
(* Module-level constants of the program.                                  *)
(***************************************************************************)
\* faulty variant: versions 0..4 of key 18 taken as a range
SUPPORTED_API_KEYS_Range == (1 :> {16}) @@ (18 :> {0, 1, 2, 3, 4})

SUPPORTED_API_KEYS == (1 :> {16}) @@ (18 :> {0, 1, 2, 4})

TAG_BUFFER == ToBytes(0, 1)

\* faulty variant: the plain length as the compact count
get_size_representation_NoOffset(arr) == Len(arr)

\* len(arr) + (len(arr) > 0)
get_size_representation(arr) == Len(arr) + (IF Len(arr) > 0 THEN 1 ELSE 0)

RecvMax == 1024

(***************************************************************************)
(* Message framing.                                                        *)
(***************************************************************************)
\* faulty variant: the size leaves the header out
Message_post_init_ContentOnly(size, header, content) ==
    IF size = "None" THEN Len(content) ELSE size

\* Message.__post_init__: the size is recomputed when it is None.
Message_post_init(size, header, content) ==
    IF size = "None" THEN Len(header \o content) ELSE size

\* Message(size, header, content): header and content are the bytes that
\* header.to_bytes() and content.to_bytes() return.
Message(size, header, content) ==
    [size |-> Message_post_init(size, header, content),
     header |-> header, content |-> content]

Message_to_bytes(m) == ToBytes(m.size, 4) \o m.header \o m.content

(***************************************************************************)
(* Request decoding.                                                       *)
(***************************************************************************)
client_id_length_index == 2 + 2 + 4

get_client_id_length(header_bytes) ==
    LET client_id_length ==
            FromBytes(Slice(header_bytes, client_id_length_index,
                            client_id_length_index + 2))
    IN  IF client_id_length = -1 THEN 0 ELSE client_id_length

RequestHeaderV2(bytes) ==
    LET len == get_client_id_length(bytes)
    IN  [bytes |-> bytes,
         request_api_key |-> FromBytes(Slice(bytes, 0, 2)),
         request_api_version |-> FromBytes(Slice(bytes, 2, 4)),
         correlation_id |-> BigFromBytes(Slice(bytes, 4, 8)),
         client_id_length |-> len,
         client_id |-> BigFromBytes(Slice(bytes, 10, 10 + len)),
         tagged_fields |-> SliceFrom(bytes, 10 + len)]

header_end_index(bytes) ==
    4 + client_id_length_index + 2 + get_client_id_length(SliceFrom(bytes, 4)) + 1

RequestV2(bytes) ==
    [bytes |-> bytes,
     size |-> FromBytes(Slice(bytes, 0, 4)),
     header |-> RequestHeaderV2(Slice(bytes, 4, header_end_index(bytes))),
     content |-> SliceFrom(bytes, header_end_index(bytes))]

\* UUID(bytes=b): raises ValueError unless b has exactly 16 bytes; the UUID
\* holds the integer value of b.
UUID_ok(b) == Len(b) = 16
UUID(b) == [int |-> BigFromBytes(b)]
UUID_bytes(u) == BigToBytes(u.int, 16)

Topic(bytes) == [topic_id |-> UUID(Slice(bytes, 0, 16))]

topics_offset == 4 + 4 + 4 + 1 + 4 + 4

topics_num(content) == FromBytes(Slice(content, topics_offset, topics_offset + 1))

\* faulty variant: range(topics_num)
topics_range_Full(n) == IF n > 0 THEN n ELSE 0

\* len(range(topics_num - 1))
topics_range(n) == IF n - 1 > 0 THEN n - 1 ELSE 0

\* faulty variant: content[offset:], the count byte included
topics_bytes_AtCount(content) == SliceFrom(content, topics_offset)

\* the bytes every Topic is built from: content[offset + 1:]
topics_bytes(content) == SliceFrom(content, topics_offset + 1)

\* FetchRequestV16.__init__ raises when a Topic is built from fewer than 16 bytes.
FetchRequestV16_raises(bytes) ==
    LET content == RequestV2(bytes).content
    IN  /\ topics_range(topics_num(content)) > 0
        /\ ~UUID_ok(Slice(topics_bytes(content), 0, 16))

FetchRequestV16(bytes) ==
    LET request == RequestV2(bytes)
        n == topics_range(topics_num(request.content))
    IN  [bytes |-> bytes, size |-> request.size, header |-> request.header,
         content |-> request.content,
         topics |-> [i \in 1..n |-> Topic(topics_bytes(request.content))]]

(***************************************************************************)
(* Response encoding.                                                      *)
(***************************************************************************)
RECURSIVE Join(_)
\* b''.join(parts)
Join(parts) == IF parts = <<>> THEN <<>> ELSE Head(parts) \o Join(Tail(parts))

\* faulty variant: byteorder="little"
ResponseHeaderV0_to_bytes_Little(correlation_id) ==
    LET b == BigToBytes(correlation_id, 4)
    IN  [i \in 1..4 |-> b[5 - i]]

ResponseHeaderV0_to_bytes(correlation_id) == BigToBytes(correlation_id, 4)

\* faulty variant: the tag buffer left out
ResponseHeaderV1_to_bytes_NoTag(correlation_id) == BigToBytes(correlation_id, 4)

ResponseHeaderV1_to_bytes(correlation_id) ==
    BigToBytes(correlation_id, 4) \o TAG_BUFFER

APIKeysV3(api_key, min_version, max_version) ==
    [api_key |-> api_key, min_version |-> min_version, max_version |-> max_version]

APIKeysV3_to_bytes(k) ==
    ToBytes(k.api_key, 2) \o ToBytes(k.min_version, 2) \o
    ToBytes(k.max_version, 2) \o TAG_BUFFER

\* The dataclass fields in positional order: the inherited _bytes comes first.
APIVersionsResponseV3(bytes, error_code, api_keys, throttle_time_ms) ==
    [error_code |-> error_code, api_keys |-> api_keys,
     throttle_time_ms |-> throttle_time_ms]

APIVersionsResponseV3_to_bytes(r) ==
    ToBytes(r.error_code, 2) \o
    ToBytes(get_size_representation(r.api_keys), 1) \o
    Join([i \in 1..Len(r.api_keys) |-> APIKeysV3_to_bytes(r.api_keys[i])]) \o
    ToBytes(r.throttle_time_ms, 4) \o
    TAG_BUFFER

PartitionsV16(partition_index, error_code) ==
    [partition_index |-> partition_index, error_code |-> error_code]

\* faulty variant: the partition's tag buffer left out
PartitionsV16_to_bytes_NoTag(p) ==
    ToBytes(p.partition_index, 4) \o ToBytes(p.error_code, 2) \o
    ToBytes(0, 8 + 8 + 8 + 1 + 4 + 1)

PartitionsV16_to_bytes(p) ==
    ToBytes(p.partition_index, 4) \o ToBytes(p.error_code, 2) \o
    ToBytes(0, 8 + 8 + 8 + 1 + 4 + 1 + 1)

TopicResponsesV16(topic_id, partitions) ==
    [topic_id |-> topic_id, partitions |-> partitions]

TopicResponsesV16_to_bytes(t) ==
    UUID_bytes(t.topic_id) \o
    ToBytes(get_size_representation(t.partitions), 1) \o
    Join([i \in 1..Len(t.partitions) |-> PartitionsV16_to_bytes(t.partitions[i])]) \o
    TAG_BUFFER

\* The dataclass fields in positional order: the inherited _bytes comes first.
FetchResponseV16(bytes, throttle_time_ms, error_code, session_id, responses) ==
    [throttle_time_ms |-> throttle_time_ms, error_code |-> error_code,
     session_id |-> session_id, responses |-> responses]

FetchResponseV16_to_bytes(r) ==
    ToBytes(r.throttle_time_ms, 4) \o
    ToBytes(r.error_code, 2) \o
    ToBytes(r.session_id, 4) \o
    ToBytes(get_size_representation(r.responses), 1) \o
    Join([i \in 1..Len(r.responses) |-> TopicResponsesV16_to_bytes(r.responses[i])]) \o
    TAG_BUFFER

(***************************************************************************)
(* main(): the dispatcher.                                                 *)
(***************************************************************************)
error_code_for(api_key, request) ==
    IF request.header.request_api_version \in SUPPORTED_API_KEYS[api_key]
    THEN 0 ELSE 35

\* faulty variant: only the low byte of the key compared
IsApiVersions_LowByte(request) == request.header.request_api_key % 256 = 18

IsApiVersions(request) == request.header.request_api_key = 18

IsFetch(request) == request.header.request_api_key = 1

ApiVersionsMessage(request) ==
    LET error_code == error_code_for(18, request)
        header == ResponseHeaderV0_to_bytes(request.header.correlation_id)
        content == APIVersionsResponseV3(<<>>, error_code,
                       <<APIKeysV3(18, 4, 4), APIKeysV3(1, 16, 16)>>, 0)
    IN  Message("None", header, APIVersionsResponseV3_to_bytes(content))

FetchMessage(bytes) ==
    LET error_code == error_code_for(1, RequestV2(bytes))
        header == ResponseHeaderV1_to_bytes(RequestV2(bytes).header.correlation_id)
        request == FetchRequestV16(bytes)
        content ==
            IF Len(request.topics) = 0
            THEN FetchResponseV16(<<>>, 1, error_code, 0, <<>>)
            ELSE FetchResponseV16(<<>>, 1, error_code, 0,
                     <<TopicResponsesV16(request.topics[1].topic_id,
                                         <<PartitionsV16(0, 100)>>)>>)
    IN  Message("None", header, FetchResponseV16_to_bytes(content))

(***************************************************************************)
(* The requests a client may send.                                         *)
(***************************************************************************)
ApiKeys == {0, 1, 18, 274}

ApiVersions == (0..MaxApiVersion) \cup {99, 4112}

CorrelationIds == {<<0, 0, 0, 0>>, <<0, 0, 0, 7>>, <<255, 255, 255, 255>>}

\* the client_id NULLABLE_STRING: a length and that many bytes, or length -1
ClientIds ==
    {ToBytes(n, 2) \o [i \in 1..n |-> 65] : n \in 0..MaxClientIdLen}
        \cup {<<255, 255>>}

TopicIds ==
    {[i \in 1..16 |-> i],
     <<0, 0, 0, 0, 0, 0, 64, 0, 128, 0, 0, 0, 0, 0, 0, 86>>,
     Zeros(16)}

\* max_wait_ms min_bytes max_bytes isolation_level session_id session_epoch
FetchPrefix ==
    <<0, 0, 1, 244, 0, 0, 0, 1, 3, 32, 0, 0, 0, 0, 0, 0, 0, 0, 0, 0, 0>>

\* what follows the topics count: a topic id, then the rest of the body
FetchTails ==
    {Slice(u \o <<1, 0, 1, 0>>, 0, n) : u \in TopicIds, n \in {0, 15, 16, 20}}

Bodies ==
    {<<>>} \cup
    {FetchPrefix \o <<c>> \o t : c \in 0..MaxTopicsNum, t \in FetchTails}

Frame(api_key, api_version, correlation_id, client_id, body) ==
    LET payload == ToBytes(api_key, 2) \o ToBytes(api_version, 2) \o
                   correlation_id \o client_id \o TAG_BUFFER \o body
    IN  ToBytes(Len(payload), 4) \o payload

WholeRequests ==
    {Frame(k, v, c, id, b) :
        k \in ApiKeys, v \in ApiVersions, c \in CorrelationIds,
        id \in ClientIds, b \in Bodies}

\* a read that delivers only the beginning of a frame
CutRequests ==
    LET r1 == Frame(18, 4, <<1, 2, 3, 4>>, <<0, 0>>, <<>>)
        r2 == Frame(1, 16, <<1, 2, 3, 4>>, <<0, 0>>,
                    FetchPrefix \o <<2>> \o [i \in 1..16 |-> i])
    IN  {Slice(r1, 0, n) : n \in 0..Len(r1)} \cup
        {Slice(r2, 0, n) : n \in 0..Len(r2)}

\* client id length fields that no well-formed request holds: -2, -32768,
\* and 5 declared with a single byte of client id behind it
BadClientIds == {<<255, 254>>, <<128, 0>>, <<0, 5, 65>>}

\* requests with such a client id, short enough for the length 5 to point
\* past the end of what was read
MalformedRequests ==
    {Frame(k, v, <<0, 0, 0, 7>>, id, b) :
        k \in ApiKeys, v \in {4, 16}, id \in BadClientIds,
        b \in {<<>>, <<0, 0>>}}

Requests == WholeRequests \cup CutRequests \cup MalformedRequests

(***************************************************************************)
(* The server process.                                                     *)
(***************************************************************************)
NoTopic == TopicResponsesV16(UUID(Zeros(16)), <<>>)

\* no response has been built yet
NoResponse == [size |-> 0, header |-> <<>>, content |-> <<>>]

Init ==
    /\ pc = "accept"
    /\ data = <<>>
    /\ topics = <<>>
    /\ response = NoResponse
    /\ sent = <<>>
    /\ raised = "none"
    /\ topic = NoTopic
    /\ encoded = <<>>

\* data = socket.recv(1024)
Recv ==
    /\ pc = "accept"
    /\ \E d \in Requests : data' = Slice(d, 0, RecvMax)
    /\ pc' = "received"
    /\ UNCHANGED <<topics, response, sent, raised, topic, encoded>>

\* the API Versions branch, up to socket.sendall
HandleApiVersions ==
    /\ pc = "received"
    /\ IsApiVersions(RequestV2(data))
    /\ response' = ApiVersionsMessage(RequestV2(data))
    /\ sent' = sent \o Message_to_bytes(response')
    /\ pc' = "done"
    /\ UNCHANGED <<topics, data, raised, topic, encoded>>

\* the Fetch branch, up to socket.sendall
HandleFetch ==
    /\ pc = "received"
    /\ ~IsApiVersions(RequestV2(data))
    /\ IsFetch(RequestV2(data))
    /\ ~FetchRequestV16_raises(data)
    /\ topics' = FetchRequestV16(data).topics
    /\ response' = FetchMessage(data)
    /\ sent' = sent \o Message_to_bytes(response')
    /\ pc' = "done"
    /\ UNCHANGED <<data, raised, topic, encoded>>

\* the Fetch branch when FetchRequestV16(data) raises
HandleFetchRaises ==
    /\ pc = "received"
    /\ ~IsApiVersions(RequestV2(data))
    /\ IsFetch(RequestV2(data))
    /\ FetchRequestV16_raises(data)
    /\ raised' = "ValueError"
    /\ pc' = "raised"
    /\ UNCHANGED <<topics, data, response, sent, topic, encoded>>

\* the else branch: raise NotImplementedError
HandleOther ==
    /\ pc = "received"
    /\ ~IsApiVersions(RequestV2(data))
    /\ ~IsFetch(RequestV2(data))
    /\ raised' = "NotImplementedError"
    /\ pc' = "raised"
    /\ UNCHANGED <<topics, data, response, sent, topic, encoded>>

Next ==
    \/ Recv
    \/ HandleApiVersions
    \/ HandleFetch
    \/ HandleFetchRaises
    \/ HandleOther

Spec == Init /\ [][Next]_vars

(***************************************************************************)
(* The fetch response encoders applied to arbitrary topic responses.       *)
(***************************************************************************)
PartitionIndexes == {0, 1, 16909060}

PartitionErrorCodes == {0, 35, 100}

EncInit ==
    /\ pc = "build"
    /\ data = <<>>
    /\ topics = <<>>
    /\ response = NoResponse
    /\ sent = <<>>
    /\ raised = "none"
    /\ topic \in {TopicResponsesV16(UUID(u), <<>>) : u \in TopicIds}
    /\ encoded = <<>>

AddPartition ==
    /\ pc = "build"
    /\ Len(topic.partitions) < MaxPartitions
    /\ \E i \in PartitionIndexes, e \in PartitionErrorCodes :
          topic' = TopicResponsesV16(topic.topic_id,
                       Append(topic.partitions, PartitionsV16(i, e)))
    /\ UNCHANGED <<topics, pc, data, response, sent, raised, encoded>>

Encode ==
    /\ pc = "build"
    /\ encoded' = TopicResponsesV16_to_bytes(topic)
    /\ pc' = "encoded"
    /\ UNCHANGED <<topics, data, response, sent, raised, topic>>

EncNext == AddPartition \/ Encode

EncSpec == EncInit /\ [][EncNext]_vars

(***************************************************************************)
(* Reading a run: the request as it lies in the received bytes, and the    *)
(* response as it lies in the bytes written to the socket.                 *)
(***************************************************************************)
Finished == pc \in {"done", "raised"}

Answered == pc = "done"

\* request header fields by their wire offsets (the frame size takes 4 bytes)
ReqApiKey == FromBytes(Slice(data, 4, 6))

ReqApiVersion == FromBytes(Slice(data, 6, 8))

ReqCorrelationBytes == Slice(data, 8, 12)

\* the request body as the server delimits it: what follows the size, the
\* 8 fixed header bytes, the client id length, the client id and one tag byte
ReqContent == SliceFrom(data, 4 + 8 + 2 + FromBytes(Slice(data, 12, 14)) + 1)

\* the raw compact count of topics of a fetch body, 0 when the body is too short
ReqTopicsRaw == IF Len(ReqContent) >= 22 THEN ReqContent[22] ELSE 0

\* a fetch body that declares a topic without the 16 bytes of its id
ReqTopicCut == ReqTopicsRaw >= 2 /\ Len(ReqContent) < 22 + 16

\* the bytes written form one frame: a 4-byte size, then that many bytes
WellFramed == Len(sent) >= 4 /\ Len(sent) = 4 + FromBytes(SubSeq(sent, 1, 4))

\* the response body of a version-negotiation answer (after size and header V0)
SentApiVersionsBody == SliceFrom(sent, 4 + 4)

\* the response body of a fetch answer (after size and header V1)
SentFetchBody == SliceFrom(sent, 4 + 5)

SentApiVersionsErrorCode == FromBytes(Slice(SentApiVersionsBody, 0, 2))

SentFetchErrorCode == FromBytes(Slice(SentFetchBody, 4, 6))

(***************************************************************************)
(* C1                                                                      *)
(***************************************************************************)
\* C1 (as stated): every request with api_key 18 or 1 gets a normally framed
\* response, with error_code 0 exactly for versions {0,1,2,4} of key 18 and
\* version 16 of key 1, and 35 otherwise.
C1_AlwaysAnswered ==
    (Finished /\ ReqApiKey \in {1, 18}) =>
        /\ Answered
        /\ WellFramed
        /\ ReqApiKey = 18 =>
              SentApiVersionsErrorCode =
                  (IF ReqApiVersion \in {0, 1, 2, 4} THEN 0 ELSE 35)
        /\ ReqApiKey = 1 =>
              SentFetchErrorCode = (IF ReqApiVersion = 16 THEN 0 ELSE 35)

\* C1 (amended): every response to api_key 18 carries error_code 0 exactly
\* for versions {0,1,2,4} and 35 otherwise, every response to api_key 1
\* carries 0 exactly for version 16 and 35 otherwise; a request with key 18
\* is always answered with a well framed response, and a request with key 1
\* is answered with one for every version alike, unless its body declares a
\* topic that lacks its 16 id bytes, which raises for every version alike.
C1_ErrorCodeByVersion ==
    Finished =>
        /\ ReqApiKey = 18 =>
              /\ Answered
              /\ WellFramed
              /\ SentApiVersionsErrorCode =
                     (IF ReqApiVersion \in {0, 1, 2, 4} THEN 0 ELSE 35)
        /\ ReqApiKey = 1 =>
              IF ReqTopicCut
              THEN pc = "raised" /\ raised = "ValueError" /\ sent = <<>>
              ELSE /\ Answered
                   /\ WellFramed
                   /\ SentFetchErrorCode =
                          (IF ReqApiVersion = 16 THEN 0 ELSE 35)

\* an unsupported version of each known key has been answered with 35
C1_Witness ==
    /\ Answered
    /\ \/ ReqApiKey = 18 /\ ReqApiVersion = 3 /\ SentApiVersionsErrorCode = 35
       \/ ReqApiKey = 1 /\ ReqApiVersion = 17 /\ SentFetchErrorCode = 35

(***************************************************************************)
(* C2                                                                      *)
(***************************************************************************)
\* C2: the response header is chosen by the API key alone: every response to
\* api_key 18 has the 4-byte header V0 (the correlation id), every response
\* to api_key 1 the 5-byte header V1 (the correlation id, then one 0x00
\* byte), whatever the api_version.
C2_HeaderByApiKey ==
    Answered =>
        LET cid == BigToBytes(BigFromBytes(ReqCorrelationBytes), 4)
        IN  /\ response.header = Slice(sent, 4, 4 + Len(response.header))
            /\ ReqApiKey = 18 => response.header = cid
            /\ ReqApiKey = 1 => response.header = cid \o <<0>>

\* both header variants have been sent in answer to an unsupported version
C2_Witness ==
    /\ Answered
    /\ \/ ReqApiKey = 18 /\ ReqApiVersion = 99 /\ Len(response.header) = 4
       \/ ReqApiKey = 1 /\ ReqApiVersion = 0 /\ Len(response.header) = 5

(***************************************************************************)
(* C3                                                                      *)
(***************************************************************************)
\* C3: for every answered request that holds the 4 correlation id bytes at
\* header offsets 4..7, the first 4 bytes of the response header, as built
\* and as written after the frame size, are those 4 bytes.
C3_CorrelationEchoed ==
    (Answered /\ Len(ReqCorrelationBytes) = 4) =>
        /\ Slice(response.header, 0, 4) = ReqCorrelationBytes
        /\ Slice(sent, 4, 8) = ReqCorrelationBytes

\* a correlation id with the top bit set, and one with leading zero bytes,
\* have been echoed
C3_Witness ==
    /\ Answered
    /\ ReqCorrelationBytes \in {<<255, 255, 255, 255>>, <<0, 0, 0, 7>>}
    /\ Slice(sent, 4, 8) = ReqCorrelationBytes

(***************************************************************************)
(* C4                                                                      *)
(***************************************************************************)
\* C4: every version-negotiation response body is the 2-byte error code
\* followed by the same table: count byte 3 (two entries), (18,4,4) and
\* (1,16,16) each with an empty tag buffer, throttle_time_ms 0 and a final
\* empty tag buffer, whatever the declared version and the error code.
C4_SameTable ==
    (Answered /\ ReqApiKey = 18) =>
        /\ SentApiVersionsErrorCode \in {0, 35}
        /\ SliceFrom(SentApiVersionsBody, 2) =
               <<3,
                 0, 18, 0, 4, 0, 4, 0,
                 0, 1, 0, 16, 0, 16, 0,
                 0, 0, 0, 0,
                 0>>
        /\ response.content = SentApiVersionsBody

\* the table has been sent with error_code 35 and with error_code 0
C4_Witness ==
    /\ Answered
    /\ ReqApiKey = 18
    /\ \/ ReqApiVersion = 99 /\ SentApiVersionsErrorCode = 35
       \/ ReqApiVersion = 4 /\ SentApiVersionsErrorCode = 0
    /\ Len(SentApiVersionsBody) = 22

(***************************************************************************)
(* C5                                                                      *)
(***************************************************************************)
\* C5: every response frame written is the 4-byte big-endian value of
\* len(header) + len(body), then the header, then the body that were built:
\* its length is 4 + len(header) + len(body).
C5_FrameLaw ==
    Answered =>
        /\ Len(sent) = 4 + Len(response.header) + Len(response.content)
        /\ FromBytes(Slice(sent, 0, 4)) =
               Len(response.header) + Len(response.content)
        /\ response.size = Len(response.header) + Len(response.content)
        /\ SliceFrom(sent, 4) = response.header \o response.content

\* frames of both kinds have been written: the version-negotiation answer
\* (4 + 22 bytes of payload) and a fetch answer with a topic (5 + 67)
C5_Witness ==
    /\ Answered
    /\ \/ ReqApiKey = 18 /\ Len(sent) = 4 + 4 + 22
       \/ ReqApiKey = 1 /\ Len(sent) = 4 + 5 + 67

(***************************************************************************)
(* The fields of a written fetch response body, by their offsets.          *)
(***************************************************************************)
SentFetchThrottle == Slice(SentFetchBody, 0, 4)

SentFetchSession == Slice(SentFetchBody, 6, 10)

SentResponsesRaw == FromBytes(Slice(SentFetchBody, 10, 11))

\* the number of topic-responses the count byte stands for
SentTopicResponses == IF SentResponsesRaw = 0 THEN 0 ELSE SentResponsesRaw - 1

\* the first topic-response: topic id, partitions count, first partition
SentTopicId == Slice(SentFetchBody, 11, 27)

SentPartitionsRaw == FromBytes(Slice(SentFetchBody, 27, 28))

SentPartitionIndex == Slice(SentFetchBody, 28, 32)

SentPartitionErrorCode == FromBytes(Slice(SentFetchBody, 32, 34))

SentHighWatermark == Slice(SentFetchBody, 34, 42)

\* the number of topics the fetch decoder reads out of the raw count
ReqDecodedTopics == IF ReqTopicsRaw = 0 THEN 0 ELSE ReqTopicsRaw - 1

\* a fetch request whose body declares exactly one topic, with its 16 id bytes
ReqOneTopic ==
    /\ ReqApiKey = 1
    /\ ReqTopicsRaw = 2
    /\ Len(ReqContent) >= 22 + 16

(***************************************************************************)
(* C6                                                                      *)
(***************************************************************************)
\* C6 (as stated): a fetch request declaring one topic U is answered with one
\* topic-response for U holding one partition with index 0, the negotiated
\* error code (0 for version 16, else 35) and high_watermark 100.
C6_NegotiatedPartitionError ==
    (Finished /\ ReqOneTopic) =>
        /\ Answered
        /\ SentTopicResponses = 1
        /\ SentTopicId = Slice(ReqContent, 22, 38)
        /\ SentPartitionsRaw = 2
        /\ SentPartitionIndex = <<0, 0, 0, 0>>
        /\ SentPartitionErrorCode = (IF ReqApiVersion = 16 THEN 0 ELSE 35)
        /\ SentHighWatermark = <<0, 0, 0, 0, 0, 0, 0, 100>>

\* C6 (amended): a fetch request declaring one topic U is answered with
\* exactly one topic-response, with topic_id U, holding exactly one
\* partition with index 0, error_code 100 whatever the api_version, and
\* high_watermark 0; the body has no other topic or partition bytes.
C6_OneUnknownTopic ==
    (Finished /\ ReqOneTopic) =>
        /\ Answered
        /\ SentTopicResponses = 1
        /\ SentTopicId = Slice(ReqContent, 22, 38)
        /\ SentPartitionsRaw = 2
        /\ SentPartitionIndex = <<0, 0, 0, 0>>
        /\ SentPartitionErrorCode = 100
        /\ SentHighWatermark = <<0, 0, 0, 0, 0, 0, 0, 0>>
        /\ Len(SentFetchBody) = 4 + 2 + 4 + 1 + (16 + 1 + 37 + 1) + 1

\* a one-topic fetch with a non-zero topic id has been answered, for a
\* supported and for an unsupported version
C6_Witness ==
    /\ Answered
    /\ ReqOneTopic
    /\ ReqApiVersion \in {16, 15}
    /\ SentTopicId = [i \in 1..16 |-> i]

(***************************************************************************)
(* C7                                                                      *)
(***************************************************************************)
\* C7 (as stated): every fetch response carries as many topic-responses as
\* topics were decoded from the request, for any declared count.
C7_OnePerDecodedTopic ==
    (Answered /\ ReqApiKey = 1) => SentTopicResponses = ReqDecodedTopics

\* C7 (amended): every fetch response carries zero topic-responses (count
\* byte 0x00) when the decoded topic list is empty, and otherwise exactly
\* one topic-response, whatever the declared topic count N >= 1.
C7_ZeroOrOneTopicResponse ==
    (Answered /\ ReqApiKey = 1) =>
        IF ReqDecodedTopics = 0
        THEN /\ SentResponsesRaw = 0
             /\ Len(SentFetchBody) = 4 + 2 + 4 + 1 + 1
        ELSE /\ SentTopicResponses = 1
             /\ Len(SentFetchBody) = 4 + 2 + 4 + 1 + (16 + 1 + 37 + 1) + 1

\* fetch requests declaring no topic, and declaring two or more, are answered
C7_Witness ==
    /\ Answered
    /\ ReqApiKey = 1
    /\ \/ ReqTopicsRaw = 1 /\ SentResponsesRaw = 0
       \/ ReqDecodedTopics >= 2 /\ SentTopicResponses = 1

(***************************************************************************)
(* C8                                                                      *)
(***************************************************************************)
\* C8: every fetch response body is throttle_time_ms(4) = 0, error_code(2),
\* session_id(4) = 0, responses count(1), the encoded responses and one
\* tag-buffer byte.
C8_FetchBodyLayout ==
    (Answered /\ ReqApiKey = 1) =>
        /\ SentFetchThrottle = <<0, 0, 0, 0>>
        /\ SentFetchErrorCode \in {0, 35}
        /\ SentFetchSession = <<0, 0, 0, 0>>
        /\ Len(SentFetchBody) =
               4 + 2 + 4 + 1 + SentTopicResponses * (16 + 1 + 37 + 1) + 1
        /\ SentFetchBody[Len(SentFetchBody)] = 0

(***************************************************************************)
(* C9                                                                      *)
(***************************************************************************)
\* the i-th encoded partition of the encoded topic-response, at the given
\* partition width
EncodedPartition(i, width) ==
    Slice(encoded, 16 + 1 + (i - 1) * width, 16 + 1 + i * width)

\* C9 (as stated): every encoded PartitionResponse is 36 bytes, index(4),
\* error_code(2) and 30 zero bytes, so a TopicResponse with p partitions
\* encodes to 16 + 1 + 36*p + 1 bytes.
C9_Partition36Bytes ==
    pc = "encoded" =>
        /\ Len(encoded) = 16 + 1 + 36 * Len(topic.partitions) + 1
        /\ \A i \in 1..Len(topic.partitions) :
              EncodedPartition(i, 36) =
                  ToBytes(topic.partitions[i].partition_index, 4) \o
                  ToBytes(topic.partitions[i].error_code, 2) \o Zeros(30)

\* C9 (amended): every encoded PartitionResponse is 37 bytes, index(4),
\* error_code(2) and 31 zero bytes, so a TopicResponse with p partitions
\* encodes to 16 + 1 + 37*p + 1 bytes: the topic id, the count byte, the
\* partitions and one tag-buffer byte, with nothing else.
C9_Partition37Bytes ==
    pc = "encoded" =>
        /\ Len(encoded) = 16 + 1 + 37 * Len(topic.partitions) + 1
        /\ Slice(encoded, 0, 16) = BigToBytes(topic.topic_id.int, 16)
        /\ encoded[Len(encoded)] = 0
        /\ \A i \in 1..Len(topic.partitions) :
              EncodedPartition(i, 37) =
                  ToBytes(topic.partitions[i].partition_index, 4) \o
                  ToBytes(topic.partitions[i].error_code, 2) \o Zeros(31)

\* a topic-response with two partitions of different contents is encoded
C9_Witness ==
    /\ pc = "encoded"
    /\ Len(topic.partitions) >= 2
    /\ topic.partitions[1] # topic.partitions[2]
    /\ Len(encoded) > 18

(***************************************************************************)
(* C10                                                                     *)
(***************************************************************************)
\* C10: every request whose api_key is neither 1 nor 18, whatever its
\* api_version, ends in the unimplemented-API fault with no byte written.
C10_UnknownKeyFatal ==
    (Finished /\ ReqApiKey \notin {1, 18}) =>
        /\ pc = "raised"
        /\ raised = "NotImplementedError"
        /\ sent = <<>>

\* a key whose low byte is 18, and key 0 with a supported fetch version,
\* have been refused
C10_Witness ==
    /\ raised = "NotImplementedError"
    /\ sent = <<>>
    /\ \/ ReqApiKey = 274 /\ ReqApiVersion = 4
       \/ ReqApiKey = 0 /\ ReqApiVersion = 16

(***************************************************************************)
(* C11                                                                     *)
(***************************************************************************)
\* the client id length field of the received request holds -1 (0xFF 0xFF)
ReqNullClientId == Slice(data, 4 + 8, 4 + 8 + 2) = <<255, 255>>

\* C11: when the client id length field is -1, the decoded client id is
\* empty and takes no bytes: the header is the 8 fixed bytes, the length
\* field and one tag byte, and the request body starts right after them.
C11_NullClientIdTakesNoBytes ==
    (Finished /\ ReqNullClientId) =>
        LET request == RequestV2(data)
        IN  /\ request.header.client_id_length = 0
            /\ request.header.client_id = <<>>
            /\ request.header.bytes = Slice(data, 4, 4 + 8 + 2 + 1)
            /\ request.content = SliceFrom(data, 4 + 8 + 2 + 1)

(***************************************************************************)
(* C12                                                                     *)
(***************************************************************************)
\* the client id length field as the unsigned 16-bit value of its two bytes
ReqClientLenRaw == FromBytes(Slice(data, 4 + 8, 4 + 8 + 2))

\* the received request holds a client id length field that is negative and
\* not -1, or non-negative and larger than the bytes that follow it
ReqBadClientLen ==
    /\ Len(data) >= 4 + 8 + 2
    /\ \/ ReqClientLenRaw >= 32768 /\ ReqClientLenRaw # 65535
       \/ ReqClientLenRaw < 32768 /\ 4 + 8 + 2 + ReqClientLenRaw > Len(data)

\* C12: a request whose client id length is negative other than -1, or
\* reaches past the end of the buffer, is rejected while its header is
\* decoded: the run ends in a fault that is not the dispatcher's, and no
\* response is produced from the request's fields.
C12_BadClientLenRejected ==
    (Finished /\ ReqBadClientLen) =>
        /\ pc = "raised"
        /\ raised # "NotImplementedError"
        /\ sent = <<>>

(***************************************************************************)
(* The compact-array count written by the encoders and read back by the    *)
(* fetch decoder.                                                          *)
(***************************************************************************)
\* a list of n elements, as the partitions of a topic-response
CountArrays ==
    {TopicResponsesV16(UUID(Zeros(16)), [i \in 1..n |-> PartitionsV16(0, 0)]) :
        n \in 0..MaxCount}

\* a fetch request whose topics count byte is raw, with one topic id behind it
CountRequest(raw) ==
    Frame(1, 16, <<0, 0, 0, 7>>, <<0, 0>>,
          FetchPrefix \o raw \o [i \in 1..16 |-> i])

CountInit ==
    /\ pc = "array"
    /\ data = <<>>
    /\ topics = <<>>
    /\ response = NoResponse
    /\ sent = <<>>
    /\ raised = "none"
    /\ topic \in CountArrays
    /\ encoded = <<>>

\* get_size_representation(arr).to_bytes(1, byteorder="big")
WriteCount ==
    /\ pc = "array"
    /\ get_size_representation(topic.partitions) < 256
    /\ encoded' = ToBytes(get_size_representation(topic.partitions), 1)
    /\ pc' = "written"
    /\ UNCHANGED <<data, topics, response, sent, raised, topic>>

\* to_bytes(1) of a count that does not fit in one byte
WriteCountOverflow ==
    /\ pc = "array"
    /\ get_size_representation(topic.partitions) >= 256
    /\ raised' = "OverflowError"
    /\ pc' = "raised"
    /\ UNCHANGED <<data, topics, response, sent, topic, encoded>>

\* FetchRequestV16 reads the count byte that was written
ReadCount ==
    /\ pc = "written"
    /\ data' = CountRequest(encoded)
    /\ ~FetchRequestV16_raises(data')
    /\ topics' = FetchRequestV16(data').topics
    /\ pc' = "read"
    /\ UNCHANGED <<response, sent, raised, topic, encoded>>

\* FetchRequestV16 reads a count byte holding the plain number n
ReadRaw ==
    /\ pc = "array"
    /\ Len(topic.partitions) < 256
    /\ encoded' = <<Len(topic.partitions)>>
    /\ data' = CountRequest(encoded')
    /\ ~FetchRequestV16_raises(data')
    /\ topics' = FetchRequestV16(data').topics
    /\ pc' = "rawread"
    /\ UNCHANGED <<response, sent, raised, topic>>

CountNext == WriteCount \/ WriteCountOverflow \/ ReadCount \/ ReadRaw

CountSpec == CountInit /\ [][CountNext]_vars

(***************************************************************************)
(* C13                                                                     *)
(***************************************************************************)
\* C13: writing a list of n elements stores 0 when n = 0 and n + 1
\* otherwise; the fetch decoder reads 0 topics out of a raw count 0 and
\* raw - 1 topics otherwise; reading what was written gives back n, for
\* every n whose count fits the one-byte field (n + 1 <= 255).
C13_CompactCountRoundTrip ==
    LET n == Len(topic.partitions)
    IN  /\ pc \in {"written", "read"} =>
              encoded = <<IF n = 0 THEN 0 ELSE n + 1>>
        /\ pc = "read" => Len(topics) = n
        /\ pc = "rawread" =>
              Len(topics) = (IF encoded[1] = 0 THEN 0 ELSE encoded[1] - 1)
        /\ pc = "raised" => n + 1 > 255

\* the largest list the count byte can stand for was written and read back
C13_Witness ==
    /\ pc = "read"
    /\ Len(topic.partitions) = 254
    /\ encoded = <<255>>
    /\ Len(topics) = 254

(***************************************************************************)
(* C14                                                                     *)
(***************************************************************************)
\* the version-negotiation response body the server builds: the advertised
\* table does not depend on the request
AdvertisedBody == ApiVersionsMessage(RequestV2(data)).content

\* the entries of the advertised table: api_key(2) min(2) max(2) tag(1) each,
\* after the error code and the count byte
AdvertisedEntries ==
    LET n == FromBytes(Slice(AdvertisedBody, 2, 3)) - 1
    IN  [i \in 1..n |->
            LET e == Slice(AdvertisedBody, 3 + 7 * (i - 1), 3 + 7 * i)
            IN  [api_key |-> FromBytes(Slice(e, 0, 2)),
                 min_version |-> FromBytes(Slice(e, 2, 4)),
                 max_version |-> FromBytes(Slice(e, 4, 6))]]

\* version v of api_key k lies in a range that the table advertises for k
Advertised(k, v) ==
    \E i \in 1..Len(AdvertisedEntries) :
        /\ AdvertisedEntries[i].api_key = k
        /\ AdvertisedEntries[i].min_version <= v
        /\ v <= AdvertisedEntries[i].max_version

\* the error code of the response to a request for api_key 18 or 1
SentErrorCode ==
    IF ReqApiKey = 18 THEN SentApiVersionsErrorCode ELSE SentFetchErrorCode

\* C14: for api_key 1 and 18, a version (of a request that holds its 8
\* fixed header bytes) is answered with error_code 0 exactly when it lies
\* in the [min_version, max_version] range that the version-negotiation
\* response advertises for that key.
C14_AdvertisedIsAccepted ==
    (Answered /\ ReqApiKey \in {1, 18} /\ Len(data) >= 4 + 8) =>
        (SentErrorCode = 0 <=> Advertised(ReqApiKey, ReqApiVersion))

====
